---- MODULE Spec2Model ----
(***************************************************************************)
(* BeamSafe MY Pro Suite: the design engine (calculateDesign) of the two   *)
(* app variants and the React state around it.                             *)
(*                                                                         *)
(*   beam variant    src/unnamed/part_001 (repeated twice in src/App.tsx)   *)
(*   column variant  src/App.tsx lines 1-639                                *)
(*                                                                         *)
(* JavaScript numbers are modelled as exact rationals over arbitrary-size  *)
(* naturals, extended with NaN and +/-Infinity.  IEEE-754 rounding of the  *)
(* individual operations is not modelled; Math.sqrt is exact on squares of *)
(* multiples of 1/SqrtScale and rounded down to a multiple of 1/SqrtScale  *)
(* otherwise.  The sign of zero is not modelled.                           *)
(***************************************************************************)
EXTENDS Integers, Sequences, FiniteSets, TLC

----------------------------------------------------------------------------
(* Natural numbers of any size: little-endian sequences of limbs in        *)
(* 0..Base-1 without a most-significant zero limb; <<>> is 0.              *)

Base == 10 ^ 4

RECURSIVE BigNorm(_)
BigNorm(a) ==
  IF a = <<>> THEN <<>>
  ELSE IF a[Len(a)] = 0 THEN BigNorm(SubSeq(a, 1, Len(a) - 1))
  ELSE a

RECURSIVE BigFromNat(_)
BigFromNat(n) ==
  IF n = 0 THEN <<>> ELSE <<n % Base>> \o BigFromNat(n \div Base)

RECURSIVE BigAddC(_, _, _)
BigAddC(a, b, c) ==
  IF a = <<>> /\ b = <<>> THEN (IF c = 0 THEN <<>> ELSE <<c>>)
  ELSE LET x == IF a = <<>> THEN 0 ELSE Head(a)
           y == IF b = <<>> THEN 0 ELSE Head(b)
           t == x + y + c
       IN  <<t % Base>> \o BigAddC(IF a = <<>> THEN <<>> ELSE Tail(a),
                                   IF b = <<>> THEN <<>> ELSE Tail(b),
                                   t \div Base)

BigAdd(a, b) == BigAddC(a, b, 0)

\* a - b for a >= b
RECURSIVE BigSubC(_, _, _)
BigSubC(a, b, c) ==
  IF a = <<>> THEN <<>>
  ELSE LET y == IF b = <<>> THEN 0 ELSE Head(b)
           t == Head(a) - y - c
       IN  <<(t + Base) % Base>> \o BigSubC(Tail(a),
                                            IF b = <<>> THEN <<>> ELSE Tail(b),
                                            IF t < 0 THEN 1 ELSE 0)

BigSub(a, b) == BigNorm(BigSubC(a, b, 0))

\* a * m for a limb-sized m (0 <= m < Base)
RECURSIVE BigMulC(_, _, _)
BigMulC(a, m, c) ==
  IF a = <<>> THEN (IF c = 0 THEN <<>> ELSE <<c>>)
  ELSE LET t == Head(a) * m + c
       IN  <<t % Base>> \o BigMulC(Tail(a), m, t \div Base)

BigMulSmall(a, m) == IF m = 0 THEN <<>> ELSE BigMulC(a, m, 0)

\* a * b from the top limb of b down: st is <<i, a times the limbs of b above b[i]>>
RECURSIVE BigMulAt(_, _, _)
BigMulAt(a, b, st) ==
  IF st[1] = 0 THEN st[2]
  ELSE BigMulAt(a, b, <<st[1] - 1,
                        BigAdd(BigMulSmall(a, b[st[1]]),
                               IF st[2] = <<>> THEN <<>> ELSE <<0>> \o st[2])>>)

BigMul(a, b) ==
  IF a = <<>> \/ b = <<>> THEN <<>> ELSE BigMulAt(a, b, <<Len(b), <<>>>>)

\* -1, 0, 1 as a < b, a = b, a > b
RECURSIVE BigCmpAt(_, _, _)
BigCmpAt(a, b, i) ==
  IF i = 0 THEN 0
  ELSE IF a[i] < b[i] THEN -1
  ELSE IF a[i] > b[i] THEN 1
  ELSE BigCmpAt(a, b, i - 1)

BigCmp(a, b) ==
  IF Len(a) < Len(b) THEN -1
  ELSE IF Len(a) > Len(b) THEN 1
  ELSE BigCmpAt(a, b, Len(a))

\* the largest t in lo..hi with t * q <= r (lo is known to qualify)
RECURSIVE BigDigit(_, _, _, _)
BigDigit(r, q, lo, hi) ==
  IF lo >= hi THEN lo
  ELSE LET mid == (lo + hi + 1) \div 2
       IN  IF BigCmp(BigMulSmall(q, mid), r) <= 0
           THEN BigDigit(r, q, mid, hi)
           ELSE BigDigit(r, q, lo, mid - 1)

\* the quotient limb r \div q of r < q * Base: the leading limbs of r and q
\* bracket it, bisection finds it
BigQuotLimb(r, q) ==
  LET n    == Len(q)
      rtop == (IF Len(r) > n THEN r[n + 1] * Base ELSE 0) + (IF Len(r) >= n THEN r[n] ELSE 0)
      lo   == rtop \div (q[n] + 1)
      hi   == rtop \div q[n]
  IN  BigDigit(r, q, lo, IF hi > Base - 1 THEN Base - 1 ELSE hi)

\* long division by q > 0, from the top limb of p down: st is <<i, quotient,
\* remainder>> of the limbs above p[i]; the value is <<quotient, remainder>>
RECURSIVE BigDivAt(_, _, _)
BigDivAt(p, q, st) ==
  IF st[1] = 0 THEN <<st[2], st[3]>>
  ELSE LET r == BigNorm(<<p[st[1]]>> \o st[3])
           t == BigQuotLimb(r, q)
       IN  BigDivAt(p, q, <<st[1] - 1, BigNorm(<<t>> \o st[2]),
                            BigSub(r, BigMulSmall(q, t))>>)

\* the same by a limb-sized m > 0, the remainder a number below m
RECURSIVE BigDivSmallAt(_, _, _)
BigDivSmallAt(p, m, st) ==
  IF st[1] = 0 THEN <<st[2], st[3]>>
  ELSE BigDivSmallAt(p, m, <<st[1] - 1,
                             BigNorm(<<(st[3] * Base + p[st[1]]) \div m>> \o st[2]),
                             (st[3] * Base + p[st[1]]) % m>>)

\* long division with p and q taken f times, which brings the top limb of q to
\* Base \div 2 or more and the bracket of BigQuotLimb to a few values; the
\* remainder comes out f times too big
BigDivUnscaled(qr, f) == <<qr[1], BigDivSmallAt(qr[2], f, <<Len(qr[2]), <<>>, 0>>)[1]>>

BigDivScaled(p, q, f) ==
  BigDivUnscaled(BigDivAt(BigMulSmall(p, f), BigMulSmall(q, f),
                          <<Len(BigMulSmall(p, f)), <<>>, <<>>>>), f)

BigDivMod(p, q) ==
  IF Len(q) = 1
  THEN LET qr == BigDivSmallAt(p, q[1], <<Len(p), <<>>, 0>>)
       IN  <<qr[1], BigFromNat(qr[2])>>
  ELSE IF BigCmp(p, q) < 0 THEN << <<>>, p >>
  ELSE BigDivScaled(p, q, Base \div (q[Len(q)] + 1))

BigDiv(p, q) == BigDivMod(p, q)[1]
BigMod(p, q) == BigDivMod(p, q)[2]

RECURSIVE BigGcd(_, _)
BigGcd(a, b) == IF b = <<>> THEN a ELSE BigGcd(b, BigMod(a, b))

\* floor of the square root of 0 <= n < Base^2: its hundreds, then the root
NatSqrt(n) ==
  LET h == CHOOSE t \in 0..99 : (100 * t) * (100 * t) <= n /\ n < (100 * t + 100) * (100 * t + 100)
  IN  CHOOSE u \in (100 * h)..(100 * h + 99) : u * u <= n /\ n < (u + 1) * (u + 1)

\* Newton's iteration downwards from x >= floor(sqrt(a))
RECURSIVE BigSqrtNewton(_, _)
BigSqrtNewton(a, x) ==
  LET y == BigDiv(BigAdd(x, BigDiv(a, x)), <<2>>)
  IN  IF BigCmp(y, x) < 0 THEN BigSqrtNewton(a, y) ELSE x

\* floor of the square root of a
BigSqrt(a) ==
  IF a = <<>> THEN <<>>
  ELSE LET len  == Len(a)
           even == len % 2 = 0
           top  == IF even THEN a[len] * Base + a[len - 1] ELSE a[len]
           rest == IF even THEN (len - 2) \div 2 ELSE (len - 1) \div 2
       IN  BigSqrtNewton(a, [j \in 1..rest |-> 0] \o <<NatSqrt(top) + 1>>)

----------------------------------------------------------------------------
(* JavaScript numbers: [k, s, n, d] with k in {"num", "nan", "inf"}, sign  *)
(* s in {-1, 0, 1}, and for k = "num" the value s * n / d (d > 0, s = 0    *)
(* exactly when n = 0).  Fractions are not kept in lowest terms; Canon     *)
(* reduces them.                                                           *)

NaN == [k |-> "nan", s |-> 0, n |-> <<>>, d |-> <<1>>]
Inf(sg) == [k |-> "inf", s |-> sg, n |-> <<>>, d |-> <<1>>]
Zero == [k |-> "num", s |-> 0, n |-> <<>>, d |-> <<1>>]

\* drop the powers of Base common to numerator and denominator
RECURSIVE Strip(_, _)
Strip(n, d) ==
  IF n # <<>> /\ Len(d) > 1 /\ Head(n) = 0 /\ Head(d) = 0
  THEN Strip(Tail(n), Tail(d))
  ELSE <<n, d>>

Mk(sg, n, d) ==
  IF n = <<>> THEN Zero
  ELSE LET r == Strip(n, d) IN [k |-> "num", s |-> sg, n |-> r[1], d |-> r[2]]

\* the integer i
Num(i) == IF i = 0 THEN Zero
          ELSE Mk(IF i < 0 THEN -1 ELSE 1, BigFromNat(IF i < 0 THEN -i ELSE i), <<1>>)

\* the decimal literal i / 10^e
Dec(i, e) == IF i = 0 THEN Zero
             ELSE Mk(IF i < 0 THEN -1 ELSE 1, BigFromNat(IF i < 0 THEN -i ELSE i),
                     BigFromNat(10 ^ e))

IsNaN(x) == x.k = "nan"
IsNum(x) == x.k = "num"

Canon(x) ==
  IF x.k # "num" \/ x.s = 0 THEN x
  ELSE LET g == BigGcd(x.n, x.d)
       IN  [k |-> "num", s |-> x.s, n |-> BigDiv(x.n, g), d |-> BigDiv(x.d, g)]

JNeg(x) == [x EXCEPT !.s = -x.s]

\* sign of x - y for two finite numbers
CmpNum(x, y) ==
  IF x.s # y.s THEN (IF x.s < y.s THEN -1 ELSE 1)
  ELSE IF x.s = 0 THEN 0
  ELSE x.s * BigCmp(BigMul(x.n, y.d), BigMul(y.n, x.d))

\* sign of x - y for two numbers that are not NaN
Cmp(x, y) ==
  IF x.k = "inf" /\ y.k = "inf" THEN (IF x.s = y.s THEN 0 ELSE IF x.s < y.s THEN -1 ELSE 1)
  ELSE IF x.k = "inf" THEN x.s
  ELSE IF y.k = "inf" THEN -y.s
  ELSE CmpNum(x, y)

JLt(x, y) == ~IsNaN(x) /\ ~IsNaN(y) /\ Cmp(x, y) < 0
JLe(x, y) == ~IsNaN(x) /\ ~IsNaN(y) /\ Cmp(x, y) <= 0
JGt(x, y) == ~IsNaN(x) /\ ~IsNaN(y) /\ Cmp(x, y) > 0
JGe(x, y) == ~IsNaN(x) /\ ~IsNaN(y) /\ Cmp(x, y) >= 0
JEq(x, y) == ~IsNaN(x) /\ ~IsNaN(y) /\ Cmp(x, y) = 0

JAdd(x, y) ==
  IF IsNaN(x) \/ IsNaN(y) THEN NaN
  ELSE IF x.k = "inf" /\ y.k = "inf" THEN (IF x.s = y.s THEN x ELSE NaN)
  ELSE IF x.k = "inf" THEN x
  ELSE IF y.k = "inf" THEN y
  ELSE IF x.s = 0 THEN y
  ELSE IF y.s = 0 THEN x
  ELSE LET a == BigMul(x.n, y.d)
           b == BigMul(y.n, x.d)
           d == BigMul(x.d, y.d)
           c == BigCmp(a, b)
       IN  IF x.s = y.s THEN Mk(x.s, BigAdd(a, b), d)
           ELSE IF c = 0 THEN Zero
           ELSE IF c > 0 THEN Mk(x.s, BigSub(a, b), d)
           ELSE Mk(y.s, BigSub(b, a), d)

JSub(x, y) == JAdd(x, JNeg(y))

JMul(x, y) ==
  IF IsNaN(x) \/ IsNaN(y) THEN NaN
  ELSE IF x.k = "inf" \/ y.k = "inf"
       THEN (IF x.s = 0 \/ y.s = 0 THEN NaN ELSE Inf(x.s * y.s))
  ELSE IF x.s = 0 \/ y.s = 0 THEN Zero
  ELSE Mk(x.s * y.s, BigMul(x.n, y.n), BigMul(x.d, y.d))

\* a zero divisor is +0
JDiv(x, y) ==
  IF IsNaN(x) \/ IsNaN(y) THEN NaN
  ELSE IF x.k = "inf" THEN (IF y.k = "inf" THEN NaN
                            ELSE IF y.s = 0 THEN x ELSE Inf(x.s * y.s))
  ELSE IF y.k = "inf" THEN Zero
  ELSE IF y.s = 0 THEN (IF x.s = 0 THEN NaN ELSE Inf(x.s))
  ELSE IF x.s = 0 THEN Zero
  ELSE Mk(x.s * y.s, BigMul(x.n, y.d), BigMul(x.d, y.n))

\* Math.min, Math.max of two arguments
MathMin(x, y) == IF IsNaN(x) \/ IsNaN(y) THEN NaN ELSE IF Cmp(x, y) <= 0 THEN x ELSE y
MathMax(x, y) == IF IsNaN(x) \/ IsNaN(y) THEN NaN ELSE IF Cmp(x, y) >= 0 THEN x ELSE y

\* Math.pow(x, 2)
MathPow2(x) == JMul(x, x)

\* Math.floor, Math.ceil
MathFloor(x) ==
  IF x.k # "num" \/ x.s = 0 THEN x
  ELSE LET qr == BigDivMod(x.n, x.d)
       IN  IF x.s > 0 THEN Mk(1, qr[1], <<1>>)
           ELSE IF qr[2] = <<>> THEN Mk(-1, qr[1], <<1>>)
           ELSE Mk(-1, BigAdd(qr[1], <<1>>), <<1>>)

MathCeil(x) == JNeg(MathFloor(JNeg(x)))

\* Math.round: floor(x + 1/2)
MathRound(x) == MathFloor(JAdd(x, Dec(5, 1)))

\* Number(x.toFixed(2)): the nearest multiple of 1/100, halves away from zero
ToFixed2(x) ==
  IF x.k # "num" \/ x.s = 0 THEN x
  ELSE LET a == [x EXCEPT !.s = 1]
           r == MathFloor(JAdd(JMul(a, Num(100)), Dec(5, 1)))
       IN  IF r.s = 0 THEN Zero ELSE Canon(JDiv([r EXCEPT !.s = x.s], Num(100)))

SqrtDigits == 6

SqrtScale == BigFromNat(10 ^ SqrtDigits)

\* Math.sqrt
MathSqrt(x) ==
  IF IsNaN(x) \/ x.s < 0 THEN NaN
  ELSE IF x.k = "inf" \/ x.s = 0 THEN x
  ELSE LET r == BigSqrt(BigDiv(BigMul(BigMul(x.n, SqrtScale), SqrtScale), x.d))
       IN  IF r = <<>> THEN Zero ELSE Mk(1, r, SqrtScale)

\* IEEE 754 binary64: a finite non-zero Number is m * 2^e with 2^52 <= m < 2^53.
\* Pow2Big(k) is 2^k.
RECURSIVE Pow2Big(_)
Pow2Big(k) == IF k < 13 THEN <<2 ^ k>> ELSE BigMulSmall(Pow2Big(k - 13), 2 ^ 13)

\* (n / d) * 2^k and (n / d) / 2^k for 0 <= k <= 13, on the smaller operands
FloatUp(n, d, k) ==
  IF BigDivSmallAt(d, 2 ^ k, <<Len(d), <<>>, 0>>)[2] = 0
  THEN <<n, BigDivSmallAt(d, 2 ^ k, <<Len(d), <<>>, 0>>)[1]>>
  ELSE <<BigMulSmall(n, 2 ^ k), d>>

FloatDown(n, d, k) ==
  IF BigDivSmallAt(n, 2 ^ k, <<Len(n), <<>>, 0>>)[2] = 0
  THEN <<BigDivSmallAt(n, 2 ^ k, <<Len(n), <<>>, 0>>)[1], d>>
  ELSE <<n, BigMulSmall(d, 2 ^ k)>>

\* one step of k binary places towards [1, 2), if n / d is that far off
FloatShift(t, k) ==
  IF BigCmp(t[1], BigMulSmall(t[2], 2 ^ k)) >= 0
  THEN FloatDown(t[1], t[2], k) \o <<t[3] + k>>
  ELSE IF BigCmp(BigMulSmall(t[1], 2 ^ k), BigMulSmall(t[2], 2)) < 0
  THEN FloatUp(t[1], t[2], k) \o <<t[3] - k>>
  ELSE t

\* steps of 8, 4, 2 and 1 places
FloatShift8(t) == FloatShift(FloatShift(FloatShift(FloatShift(t, 8), 4), 2), 1)

\* n / d brought into [1, 2): <<n', d', e>> with n / d = (n' / d') * 2^e
RECURSIVE FloatScale(_, _, _)
FloatScale(n, d, e) ==
  IF BigCmp(n, BigMul(d, <<0, 1>>)) >= 0
  THEN FloatScale(FloatDown(n, d, 13)[1], FloatDown(n, d, 13)[2], e + 13)
  ELSE IF BigCmp(BigMul(n, <<0, 1>>), d) < 0
  THEN FloatScale(FloatUp(n, d, 13)[1], FloatUp(n, d, 13)[2], e - 13)
  ELSE FloatShift8(<<n, d, e>>)

\* the significand: n / d in [1, 2) taken to [2^52, 2^53)
FloatUp26(t) == FloatUp(FloatUp(t[1], t[2], 13)[1], FloatUp(t[1], t[2], 13)[2], 13)
FloatSignificand(t) == FloatUp26(FloatUp26(t)) \o <<t[3] - 52>>

\* the quotient q with remainder r of divisor d rounded to nearest, ties to even
FloatNearest(q, r, d) ==
  IF BigCmp(BigMulSmall(r, 2), d) > 0 \/ (BigCmp(BigMulSmall(r, 2), d) = 0 /\ q[1] % 2 = 1)
  THEN BigAdd(q, <<1>>)
  ELSE q

FloatOf(sg, m, e) ==
  IF e >= 0 THEN Mk(sg, BigMul(m, Pow2Big(e)), <<1>>) ELSE Mk(sg, m, Pow2Big(0 - e))

FloatRounded(sg, nd, qr) == FloatOf(sg, FloatNearest(qr[1], qr[2], nd[2]), nd[3])

FloatScaled(sg, nd) == FloatRounded(sg, nd, BigDivMod(nd[1], nd[2]))

\* the Number nearest to x: what an arithmetic operation of exact value x,
\* or parseFloat of a decimal text of value x, leaves in a variable
Float64(x) ==
  IF x.k # "num" \/ x.s = 0 THEN x
  ELSE FloatScaled(x.s, FloatSignificand(FloatScale(x.n, x.d, 0)))

\* ToBoolean of a number, and a || b on numbers
Truthy(x) == ~(IsNaN(x) \/ x.s = 0)
JOr(x, y) == IF Truthy(x) THEN x ELSE y

----------------------------------------------------------------------------
(* parseFloat on the decimal literals [+-]digits[.digits]; the longest     *)
(* such prefix is read and anything after it ignored.  Leading white       *)
(* space, exponents and the literal Infinity are not modelled.             *)

DigitChars == "0123456789"
IsDigit(c) == \E i \in 1..10 : SubSeq(DigitChars, i, i) = c
DigitOf(c) == CHOOSE i \in 0..9 : SubSeq(DigitChars, i + 1, i + 1) = c

\* <<mantissa, digits read, rest>> after reading the digits that start str
RECURSIVE ScanDigits(_, _, _)
ScanDigits(str, acc, cnt) ==
  IF Len(str) > 0 /\ IsDigit(Head(str))
  THEN ScanDigits(Tail(str), BigAdd(BigMulSmall(acc, 10), BigFromNat(DigitOf(Head(str)))), cnt + 1)
  ELSE <<acc, cnt, str>>

RECURSIVE BigPow10(_)
BigPow10(e) == IF e = 0 THEN <<1>> ELSE BigMulSmall(BigPow10(e - 1), 10)

ParseFloat(str) ==
  LET signed == Len(str) > 0 /\ Head(str) \in {"-", "+"}
      sg     == IF Len(str) > 0 /\ Head(str) = "-" THEN -1 ELSE 1
      body   == IF signed THEN Tail(str) ELSE str
      ip     == ScanDigits(body, <<>>, 0)
      dotted == Len(ip[3]) > 0 /\ Head(ip[3]) = "."
      fp     == IF dotted THEN ScanDigits(Tail(ip[3]), ip[1], 0) ELSE <<ip[1], 0, ip[3]>>
  IN  IF ip[2] + fp[2] = 0 THEN NaN
      ELSE Canon(Mk(sg, fp[1], BigPow10(fp[2])))

\* str || dflt on strings: the empty string is falsy
StrOr(str, dflt) == IF str = "" THEN dflt ELSE str

----------------------------------------------------------------------------
(* Engineering constants                                                   *)

CONCRETE_DENSITY == 24
FY == 460
COVER == 25
SLAB_DL_UNIT == Dec(40, 1)
WALL_DL_UNIT == Dec(26, 1)
GAMMA_G == Dec(14, 1)
GAMMA_Q == Dec(16, 1)

----------------------------------------------------------------------------
(* Section design kernel: the flexure and shear check that calculateDesign *)
(* repeats for the beam and the ground beam of either variant.             *)

\* K = (M * 1e6) / (b * d^2 * fcu)
MomentFactor(M, b, d, fcu) ==
  JDiv(JMul(M, Num(1000000)), JMul(JMul(b, MathPow2(d)), fcu))

\* the utilization without its cap at 100
UtilizationUncapped(K) == Canon(MathRound(JMul(JDiv(K, Dec(156, 3)), Num(100))))

\* the utilization capped one short of 100
UtilizationBelowFull(K) ==
  Canon(MathMin(Num(99), MathRound(JMul(JDiv(K, Dec(156, 3)), Num(100)))))

\* Math.min(100, Math.round((K / 0.156) * 100))
Utilization(K) ==
  Canon(MathMin(Num(100), MathRound(JMul(JDiv(K, Dec(156, 3)), Num(100)))))

\* the flexural test with the boundary left out: K < 0.156
FlexureStatusStrict(K) == IF JLt(K, Dec(156, 3)) THEN "SAFE" ELSE "UNSAFE"

\* K <= 0.156 ? 'SAFE' : 'UNSAFE'
FlexureStatus(K) == IF JLe(K, Dec(156, 3)) THEN "SAFE" ELSE "UNSAFE"

\* z = Math.min(d * (0.5 + Math.sqrt(0.25 - K / 0.9)), 0.95 * d)
LeverArm(K, d) ==
  MathMin(JMul(d, JAdd(Dec(5, 1), MathSqrt(JSub(Dec(25, 2), JDiv(K, Dec(9, 1)))))),
          JMul(Dec(95, 2), d))

\* the steel area without the minimum steel
SteelRequiredNoMinimum(M, z, b, h) ==
  JDiv(JMul(M, Num(1000000)), JMul(JMul(Dec(95, 2), Num(FY)), z))

\* asRequired = Math.max((M * 1e6) / (0.95 * FY * z), 0.0013 * b * h)
SteelRequired(M, z, b, h) ==
  MathMax(JDiv(JMul(M, Num(1000000)), JMul(JMul(Dec(95, 2), Num(FY)), z)),
          JMul(JMul(Dec(13, 4), b), h))

\* the chain with <= in place of <: a tie takes the lighter bar
MainBarTieLower(as) ==
  IF JLe(as, Num(226)) THEN "2T12 Bottom"
  ELSE IF JLe(as, Num(402)) THEN "2T16 Bottom"
  ELSE IF JLe(as, Num(603)) THEN "3T16 Bottom"
  ELSE IF JLe(as, Num(942)) THEN "3T20 Bottom"
  ELSE "4T20 Bottom"

\* the chain with its last two limits exchanged
MainBarSwapped(as) ==
  IF JLt(as, Num(226)) THEN "2T12 Bottom"
  ELSE IF JLt(as, Num(402)) THEN "2T16 Bottom"
  ELSE IF JLt(as, Num(942)) THEN "3T16 Bottom"
  ELSE IF JLt(as, Num(603)) THEN "3T20 Bottom"
  ELSE "4T20 Bottom"

\* the if / else-if chain on asRequired
MainBar(as) ==
  IF JLt(as, Num(226)) THEN "2T12 Bottom"
  ELSE IF JLt(as, Num(402)) THEN "2T16 Bottom"
  ELSE IF JLt(as, Num(603)) THEN "3T16 Bottom"
  ELSE IF JLt(as, Num(942)) THEN "3T20 Bottom"
  ELSE "4T20 Bottom"

\* v = (V * 1000) / (b * d)
ShearStress(V, b, d) == JDiv(JMul(V, Num(1000)), JMul(b, d))

\* the links chosen without looking at the shear stress
ShearLinksAlwaysLight(v, dense, light) == light

\* v > 0.4 ? dense : light
ShearLinks(v, dense, light) == IF JGt(v, Dec(4, 1)) THEN dense ELSE light

\* a section check that has no hard shear limit
ShearNeverFails(v, fcu) == FALSE

\* v > 0.8 * Math.sqrt(fcu)
ShearFails(v, fcu) == JGt(v, JMul(Dec(8, 1), MathSqrt(fcu)))

\* a section check that designs the steel whatever the flexural verdict
SectionCheckDesignsAlways(M, V, b, d, h, fcu, lab) ==
  LET K        == MomentFactor(M, b, d, fcu)
      flexure  == FlexureStatus(K)
      z        == LeverArm(K, d)
      as       == SteelRequired(M, z, b, h)
      v        == ShearStress(V, b, d)
  IN  [K |-> K, utilization |-> Utilization(K), flexure |-> flexure,
       status |-> IF flexure = "SAFE" /\ ~ShearFails(v, fcu) THEN "SAFE" ELSE "UNSAFE",
       mainBar |-> MainBar(as), topBar |-> "2T12 (Hangers)",
       shearLinks |-> ShearLinks(v, lab[2], lab[3]),
       asRequired |-> as, v |-> v, designed |-> TRUE]

\* The section check.  lab = <<initial links, dense links, light links>>.
\* Each step of the code is an operator that hands its values to the next.

\* K > 0.156: the fields keep their initial values
SectionUnsafe(K, v, lab) ==
  [K |-> K, utilization |-> Utilization(K), flexure |-> "UNSAFE",
   status |-> "UNSAFE",
   mainBar |-> "None", topBar |-> "2T12 (Hangers)",
   shearLinks |-> lab[1],
   asRequired |-> Zero, v |-> v, designed |-> FALSE]

\* the body of if (status === 'SAFE')
SectionSafe(K, as, v, fcu, lab) ==
  [K |-> K, utilization |-> Utilization(K), flexure |-> "SAFE",
   status |-> IF ShearFails(v, fcu) THEN "UNSAFE" ELSE "SAFE",
   mainBar |-> MainBar(as), topBar |-> "2T12 (Hangers)",
   shearLinks |-> ShearLinks(v, lab[2], lab[3]),
   asRequired |-> as, v |-> v, designed |-> TRUE]

SectionFlexure(M, V, b, d, h, fcu, lab, K) ==
  IF FlexureStatus(K) = "SAFE"
  THEN SectionSafe(K, SteelRequired(M, LeverArm(K, d), b, h), ShearStress(V, b, d), fcu, lab)
  ELSE SectionUnsafe(K, ShearStress(V, b, d), lab)

SectionCheck(M, V, b, d, h, fcu, lab) ==
  SectionFlexure(M, V, b, d, h, fcu, lab, MomentFactor(M, b, d, fcu))

----------------------------------------------------------------------------
(* Footing side, shared by both variants                                   *)

\* the load multiplied by the soil capacity instead of divided by it
RequiredFootingAreaProduct(load, soil) == JMul(load, soil)

\* requiredFootingArea = colLoad / soilCapacity; footingArea = axialLoad / soil
RequiredFootingArea(load, soil) == JDiv(load, soil)

\* the area, not its root, rounded up to 0.1
FootingSizeFromArea(area) == Canon(JDiv(MathCeil(JMul(area, Num(10))), Num(10)))

\* the side rounded to the nearest 0.1 m instead of up
FootingSizeRounded(area) == Canon(JDiv(MathRound(JMul(MathSqrt(area), Num(10))), Num(10)))

\* Math.ceil(Math.sqrt(area) * 10) / 10
FootingSize(area) == Canon(JDiv(MathCeil(JMul(MathSqrt(area), Num(10))), Num(10)))

----------------------------------------------------------------------------
(* Beam variant: calculateDesign of src/unnamed/part_001                   *)

Null == [isNull |-> TRUE]

BeamDefaults ==
  [span |-> "4.0", width |-> "150", depth |-> "450", fcu |-> "25",
   tributaryWidth |-> "3.0", wallHeight |-> "3.0", liveLoad |-> "1.5",
   colHeight |-> "3.0", soilCapacity |-> "150", groundBeamSpan |-> "3.0",
   groundBeamWidth |-> "200", groundBeamDepth |-> "350", groundBeamLoad |-> "10.0"]

\* the guard without its test of the sign
SpanRefusedUnsigned(L) == ~Truthy(L) \/ IsNaN(L)

\* !L || isNaN(L) || L <= 0
SpanRefused(L) == ~Truthy(L) \/ IsNaN(L) \/ JLe(L, Zero)

\* the automatic width at its 150 mm floor, whatever the depth
AutoWidthFloorOnly(b, h) == JOr(b, Num(150))

\* h = h || Math.max(300, Math.ceil((L * 1000 / 14) / 25) * 25)
AutoDepth(h, L) ==
  JOr(h, MathMax(Num(300),
                 JMul(MathCeil(JDiv(JDiv(JMul(L, Num(1000)), Num(14)), Num(25))), Num(25))))

\* b = b || Math.max(150, Math.ceil((h / 2.5) / 25) * 25)
AutoWidth(b, h) ==
  JOr(b, MathMax(Num(150),
                 JMul(MathCeil(JDiv(JDiv(h, Dec(25, 1)), Num(25))), Num(25))))

\* the footing mesh of the beam variant
BeamFootingSteel(as) ==
  IF JGt(as, Num(600)) THEN "T12 @ 150mm B1/B2"
  ELSE IF JGt(as, Num(452)) THEN "T12 @ 200mm B1/B2"
  ELSE "T12 @ 250mm B1/B2"

BeamLabels == <<"R6-250", "R8 @ 175mm", "R6 @ 200mm">>

\* the parsed inputs
BeamParse(inp) ==
  [L       |-> ParseFloat(inp.span),
   fcu     |-> ParseFloat(inp.fcu),
   trib    |-> ParseFloat(StrOr(inp.tributaryWidth, "0")),
   wallH   |-> ParseFloat(StrOr(inp.wallHeight, "0")),
   LL      |-> ParseFloat(StrOr(inp.liveLoad, "1.5")),
   soil    |-> ParseFloat(StrOr(inp.soilCapacity, "150")),
   colH    |-> ParseFloat(StrOr(inp.colHeight, "3.0")),
   groundBeamL    |-> ParseFloat(StrOr(inp.groundBeamSpan, "3.0")),
   groundBeamW    |-> ParseFloat(StrOr(inp.groundBeamWidth, "200")),
   groundBeamH    |-> ParseFloat(StrOr(inp.groundBeamDepth, "350")),
   groundBeamLoad |-> ParseFloat(StrOr(inp.groundBeamLoad, "10.0")),
   b0      |-> ParseFloat(inp.width),
   h0      |-> ParseFloat(inp.depth)]

\* if (!b || !h) { h = h || ...; b = b || ...; }
BeamDepth(b0, h0, L) == IF ~Truthy(b0) \/ ~Truthy(h0) THEN AutoDepth(h0, L) ELSE h0
BeamWidth(b0, h0, h) == IF ~Truthy(b0) \/ ~Truthy(h0) THEN AutoWidth(b0, h) ELSE b0

\* sw, deadLoad, liveLoadTotal, totalUDL
BeamUDL(p, b, h) ==
  JAdd(JMul(GAMMA_G,
            JAdd(JAdd(JMul(JMul(JDiv(b, Num(1000)), JDiv(h, Num(1000))),
                           Num(CONCRETE_DENSITY)),
                      JMul(SLAB_DL_UNIT, p.trib)),
                 JMul(WALL_DL_UNIT, p.wallH))),
       JMul(GAMMA_Q, JMul(p.LL, p.trib)))

\* --- Beam Calcs ---: M, reaction, d
BeamLoads(L, h, totalUDL) ==
  [totalUDL |-> totalUDL,
   M        |-> JDiv(JMul(JMul(totalUDL, L), L), Num(8)),
   reaction |-> JDiv(JMul(totalUDL, L), Num(2)),
   d        |-> JSub(JSub(JSub(h, Num(COVER)), Num(8)), Num(10))]

\* --- Ground Beam Calculations ---: groundBeamSw + groundBeamLoad, then M, V, d
GroundBeamUDL(p) ==
  JAdd(p.groundBeamLoad,
       JMul(JMul(JDiv(p.groundBeamW, Num(1000)), JDiv(p.groundBeamH, Num(1000))),
            Num(CONCRETE_DENSITY)))

GroundBeamLoads(p, groundBeamTotalUDL) ==
  [M        |-> JDiv(JMul(JMul(groundBeamTotalUDL, p.groundBeamL), p.groundBeamL), Num(8)),
   reaction |-> JDiv(JMul(groundBeamTotalUDL, p.groundBeamL), Num(2)),
   d        |-> JSub(JSub(JSub(p.groundBeamH, Num(COVER)), Num(8)), Num(10))]

\* --- Column & Footing Calcs ---
BeamAxialLoad(reaction, colH) ==
  JAdd(reaction, JMul(JMul(JMul(JMul(Dec(2, 1), Dec(2, 1)), colH), Num(24)), Dec(14, 1)))

\* colSize = 200, ac = colSize^2, asc = ac * 0.008
BeamColumnCapacity(fcu, ac) ==
  JDiv(JAdd(JMul(JMul(Dec(35, 2), fcu), ac),
            JMul(JMul(Dec(67, 2), Num(FY)), JMul(ac, Dec(8, 3)))), Num(1000))

BeamColumn(axialLoad, colCapacity) ==
  [axialLoad |-> axialLoad, colCapacity |-> colCapacity,
   colStatus |-> IF JLt(axialLoad, colCapacity) THEN "SAFE" ELSE "UNSAFE"]

\* footingP, cantL, footingM, footingAs on a footing of side footingSize
BeamFootingAs(axialLoad, footingSize) ==
  JDiv(JMul(JDiv(JMul(JDiv(axialLoad, JMul(footingSize, footingSize)),
                      MathPow2(JDiv(JSub(footingSize, JDiv(Num(200), Num(1000))), Num(2)))),
                 Num(2)),
            Num(1000000)),
       JMul(JMul(Dec(95, 2), Num(FY)), JMul(Dec(95, 2), Num(300 - 50))))

BeamFootingFinal(footingArea, footingSize, footingAs) ==
  [footingArea |-> footingArea, footingSize |-> footingSize,
   finalFootingAs |-> MathMax(footingAs, JMul(JMul(Dec(13, 4), Num(1000)), Num(300)))]

BeamFootingSized(axialLoad, footingArea, footingSize) ==
  BeamFootingFinal(footingArea, footingSize, BeamFootingAs(axialLoad, footingSize))

BeamFooting(axialLoad, footingArea) ==
  BeamFootingSized(axialLoad, footingArea, FootingSize(footingArea))

\* setResult({...}), with the local constants of the run
BeamSetResult(p, b, h, ld, beam, gl, gb, col, ft) ==
  [result |->
     [width |-> b, depth |-> h,
      totalUDL |-> ToFixed2(ld.totalUDL),
      moment |-> ToFixed2(ld.M),
      reaction |-> ToFixed2(ld.reaction),
      asRequired |-> Canon(MathRound(beam.asRequired)),
      mainBar |-> beam.mainBar, topBar |-> beam.topBar,
      shearLinks |-> beam.shearLinks, status |-> beam.status,
      utilization |-> beam.utilization,
      colSize |-> Num(200), colStatus |-> col.colStatus,
      footingSize |-> ft.footingSize,
      footingSteel |-> BeamFootingSteel(ft.finalFootingAs),
      groundBeamWidth |-> p.groundBeamW, groundBeamDepth |-> p.groundBeamH,
      groundBeamMoment |-> ToFixed2(gl.M),
      groundBeamAsRequired |-> Canon(MathRound(gb.asRequired)),
      groundBeamMainBar |-> gb.mainBar, groundBeamTopBar |-> gb.topBar,
      groundBeamShearLinks |-> gb.shearLinks, groundBeamStatus |-> gb.status,
      groundBeamUtilization |-> gb.utilization],
   locals |->
     [L |-> p.L, fcu |-> p.fcu, b |-> b, h |-> h, d |-> ld.d, M |-> ld.M,
      reaction |-> ld.reaction, beam |-> beam,
      groundBeamD |-> gl.d, groundBeamM |-> gl.M,
      groundBeamReaction |-> gl.reaction, gb |-> gb,
      axialLoad |-> col.axialLoad, colCapacity |-> col.colCapacity,
      soil |-> p.soil, footingArea |-> ft.footingArea,
      finalFootingAs |-> ft.finalFootingAs]]

BeamSupports(p, b, h, ld, gl, col) ==
  BeamSetResult(p, b, h, ld,
                SectionCheck(ld.M, ld.reaction, b, ld.d, h, p.fcu, BeamLabels),
                gl,
                SectionCheck(gl.M, gl.reaction, p.groundBeamW, gl.d, p.groundBeamH,
                             p.fcu, BeamLabels),
                col,
                BeamFooting(col.axialLoad, RequiredFootingArea(col.axialLoad, p.soil)))

BeamLoaded(p, b, h, ld) ==
  BeamSupports(p, b, h, ld, GroundBeamLoads(p, GroundBeamUDL(p)),
               BeamColumn(BeamAxialLoad(ld.reaction, p.colH),
                          BeamColumnCapacity(p.fcu, JMul(Num(200), Num(200)))))

BeamSized(p, b, h) == BeamLoaded(p, b, h, BeamLoads(p.L, h, BeamUDL(p, b, h)))

BeamDeep(p, h) == BeamSized(p, BeamWidth(p.b0, p.h0, h), h)

BeamParsed(p) ==
  IF SpanRefused(p.L)
  THEN [result |-> Null, locals |-> [L |-> p.L, fcu |-> p.fcu]]
  ELSE BeamDeep(p, BeamDepth(p.b0, p.h0, p.L))

\* The run of calculateDesign on the inputs inp: the record handed to
\* setResult (or Null), and the values of its local constants.
BeamDesign(inp) == BeamParsed(BeamParse(inp))

----------------------------------------------------------------------------
(* Column variant: calculateDesign of src/App.tsx                          *)

ColumnDefaults ==
  [colWidth |-> "200", colLength |-> "200", colHeight |-> "3000",
   colSpacing |-> "4.0", colLoad |-> "500", soilCapacity |-> "150",
   fcu |-> "25", groundBeamSpan |-> "4.0"]

\* parseFloat(str) || dflt
ParseOr(str, dflt) == JOr(ParseFloat(str), dflt)

\* !colWidth || !colLength || !colLoad || !soilCapacity
ColumnRefused(colWidth, colLength, colLoad, soilCapacity) ==
  ~Truthy(colWidth) \/ ~Truthy(colLength) \/ ~Truthy(colLoad) \/ ~Truthy(soilCapacity)

\* the chain of ifs on finalSteelArea
FootingSteel(as) ==
  IF JGt(as, Num(1005)) THEN "T20 @ 250mm"
  ELSE IF JGt(as, Num(804)) THEN "T16 @ 200mm"
  ELSE IF JGt(as, Num(565)) THEN "T16 @ 250mm"
  ELSE IF JGt(as, Num(452)) THEN "T12 @ 200mm"
  ELSE "T12 @ 250mm"

\* actualBearingPressure = colLoad / (footingSize * footingSize), with the
\* rounding of the product and of the quotient to a Number
BearingPressure(colLoad, footingSize) ==
  Float64(JDiv(Float64(colLoad),
               Float64(JMul(Float64(footingSize), Float64(footingSize)))))

\* actualBearingPressure <= soilCapacity ? 'SAFE' : 'UNSAFE'
FootingStatus(pressure, soilCapacity) ==
  IF JLe(pressure, Float64(soilCapacity)) THEN "SAFE" ELSE "UNSAFE"

ColumnLabels == <<"R8-250", "R10 @ 175mm", "R8 @ 200mm">>

\* the parsed inputs with the concrete grade read from the soil capacity field
ColumnParseSoilAsGrade(inp) ==
  [colWidth     |-> ParseOr(inp.colWidth, Num(200)),
   colLength    |-> ParseOr(inp.colLength, Num(200)),
   colHeight    |-> ParseOr(inp.colHeight, Num(3000)),
   colSpacing   |-> ParseOr(inp.colSpacing, Num(4)),
   colLoad      |-> ParseOr(inp.colLoad, Num(500)),
   soilCapacity |-> ParseOr(inp.soilCapacity, Num(150)),
   fcu          |-> ParseOr(inp.soilCapacity, Num(25)),
   groundBeamL  |-> ParseOr(inp.groundBeamSpan, Num(4))]

\* the parsed inputs
ColumnParse(inp) ==
  [colWidth     |-> ParseOr(inp.colWidth, Num(200)),
   colLength    |-> ParseOr(inp.colLength, Num(200)),
   colHeight    |-> ParseOr(inp.colHeight, Num(3000)),
   colSpacing   |-> ParseOr(inp.colSpacing, Num(4)),
   colLoad      |-> ParseOr(inp.colLoad, Num(500)),
   soilCapacity |-> ParseOr(inp.soilCapacity, Num(150)),
   fcu          |-> ParseOr(inp.fcu, Num(25)),
   groundBeamL  |-> ParseOr(inp.groundBeamSpan, Num(4))]

\* the capacity with the whole column area in its concrete term
ColumnCapacityGross(colArea, fcu) ==
  JDiv(JAdd(JMul(JMul(Dec(4, 1), JDiv(JMul(Dec(67, 2), fcu), Dec(15, 1))), colArea),
            JMul(JMul(Dec(87, 2), JDiv(Num(FY), Dec(115, 2))),
                 JMul(colArea, Dec(1, 2)))),
       Num(1000))

\* --- Column Verification ---: steelRatio 0.01, fcd, fyd, colCapacity
ColumnCapacity(colArea, fcu) ==
  JDiv(JAdd(JMul(JMul(Dec(4, 1), JDiv(JMul(Dec(67, 2), fcu), Dec(15, 1))),
                 JMul(colArea, JSub(Num(1), Dec(1, 2)))),
            JMul(JMul(Dec(87, 2), JDiv(Num(FY), Dec(115, 2))),
                 JMul(colArea, Dec(1, 2)))),
       Num(1000))

\* the column verdict with <= in place of <
ColumnVerifiedInclusive(colLoad, colCapacity) ==
  [colCapacity |-> colCapacity,
   colStatus |-> IF JLe(colLoad, colCapacity) THEN "SAFE" ELSE "UNSAFE"]

ColumnVerified(colLoad, colCapacity) ==
  [colCapacity |-> colCapacity,
   colStatus |-> IF JLt(colLoad, colCapacity) THEN "SAFE" ELSE "UNSAFE"]

\* footingThickness = Math.max(300, Math.ceil(Math.max(colWidth, colLength) / 2))
FootingThickness(maxColDim) == MathMax(Num(300), MathCeil(JDiv(maxColDim, Num(2))))

\* momentAtFace = (ulsPressure * cantileverLength^2) / (2 * 1e6)
MomentAtFace(colLoad, footingSize, cantileverLength) ==
  JDiv(JMul(JMul(JDiv(JMul(colLoad, Dec(14, 1)), JMul(footingSize, footingSize)),
                 cantileverLength), cantileverLength),
       JMul(Num(2), Num(1000000)))

\* k = (momentAtFace * 1e6) / (1000 * effectiveDepth^2 * fcu)
FootingK(momentAtFace, effectiveDepth, fcu) ==
  JDiv(JMul(momentAtFace, Num(1000000)),
       JMul(JMul(JMul(Num(1000), effectiveDepth), effectiveDepth), fcu))

\* z = effectiveDepth * Math.min(0.5 + Math.sqrt(0.25 - k / 0.9), 0.95)
FootingLeverArm(k, effectiveDepth) ==
  JMul(effectiveDepth,
       MathMin(JAdd(Dec(5, 1), MathSqrt(JSub(Dec(25, 2), JDiv(k, Dec(9, 1))))), Dec(95, 2)))

\* finalSteelArea = Math.max(steelAreaReq, minSteelArea)
FootingSteelArea(momentAtFace, z, footingThickness) ==
  MathMax(JDiv(JMul(momentAtFace, Num(1000000)), JMul(JMul(Dec(95, 2), Num(FY)), z)),
          JMul(JMul(Dec(13, 4), Num(1000)), footingThickness))

FootingReinforced(base, k, finalSteelArea) ==
  [requiredFootingArea |-> base.requiredFootingArea, footingSize |-> base.footingSize,
   actualBearingPressure |-> base.actualBearingPressure,
   footingStatus |-> base.footingStatus, maxColDim |-> base.maxColDim,
   footingThickness |-> base.footingThickness,
   cantileverLength |-> base.cantileverLength,
   k |-> k, finalSteelArea |-> finalSteelArea]

FootingBent(base, fcu, momentAtFace, effectiveDepth, k) ==
  FootingReinforced(base, k,
                    FootingSteelArea(momentAtFace, FootingLeverArm(k, effectiveDepth),
                                     base.footingThickness))

FootingLoaded(base, fcu, momentAtFace, effectiveDepth) ==
  FootingBent(base, fcu, momentAtFace, effectiveDepth,
              FootingK(momentAtFace, effectiveDepth, fcu))

FootingBase(p, requiredFootingArea, footingSize, actualBearingPressure, maxColDim) ==
  [requiredFootingArea |-> requiredFootingArea, footingSize |-> footingSize,
   actualBearingPressure |-> actualBearingPressure,
   footingStatus |-> FootingStatus(actualBearingPressure, p.soilCapacity),
   maxColDim |-> maxColDim,
   footingThickness |-> FootingThickness(maxColDim),
   cantileverLength |-> JDiv(JSub(JMul(footingSize, Num(1000)), maxColDim), Num(2))]

FootingOn(p, base) ==
  FootingLoaded(base, p.fcu,
                MomentAtFace(p.colLoad, base.footingSize, base.cantileverLength),
                JSub(base.footingThickness, Num(75)))

FootingSized(p, requiredFootingArea, footingSize) ==
  FootingOn(p, FootingBase(p, requiredFootingArea, footingSize,
                           BearingPressure(p.colLoad, footingSize),
                           MathMax(p.colWidth, p.colLength)))

\* --- Footing Design ---
ColumnFooting(p, requiredFootingArea) ==
  FootingSized(p, requiredFootingArea, FootingSize(requiredFootingArea))

\* --- Ground Beam Design ---: estimatedLoad, width, depth, M, V, d
ColumnGroundBeamSized(groundBeamL, estimatedLoad, groundBeamWidth, groundBeamDepth) ==
  [groundBeamWidth |-> groundBeamWidth, groundBeamDepth |-> groundBeamDepth,
   groundBeamM |-> JDiv(JMul(JMul(estimatedLoad, groundBeamL), groundBeamL), Num(8)),
   groundBeamV |-> JDiv(JMul(estimatedLoad, groundBeamL), Num(2)),
   d |-> JSub(groundBeamDepth, Num(50))]

\* the ground beam with no 600 mm cap on its depth
ColumnGroundBeamUncapped(p) ==
  ColumnGroundBeamSized(
    p.groundBeamL,
    JDiv(p.colLoad, p.colSpacing),
    MathMax(Num(200), JMul(MathMax(p.colWidth, p.colLength), Dec(8, 1))),
    MathMax(Num(300), MathCeil(JDiv(JMul(p.groundBeamL, Num(1000)), Num(12)))))

ColumnGroundBeamLoads(p) ==
  ColumnGroundBeamSized(
    p.groundBeamL,
    JDiv(p.colLoad, p.colSpacing),
    MathMax(Num(200), JMul(MathMax(p.colWidth, p.colLength), Dec(8, 1))),
    MathMax(Num(300),
            MathMin(Num(600), MathCeil(JDiv(JMul(p.groundBeamL, Num(1000)), Num(12))))))

\* setResult({...}), with the local constants of the run
ColumnSetResult(p, col, ft, gl, gb) ==
  [result |->
     [colSize |-> Canon(ft.maxColDim), colLoad |-> p.colLoad,
      colCapacity |-> ToFixed2(col.colCapacity), colStatus |-> col.colStatus,
      footingSize |-> ToFixed2(ft.footingSize),
      footingThickness |-> Canon(ft.footingThickness),
      footingSteel |-> FootingSteel(ft.finalSteelArea),
      footingStatus |-> ft.footingStatus,
      groundBeamWidth |-> Canon(gl.groundBeamWidth),
      groundBeamDepth |-> Canon(gl.groundBeamDepth),
      groundBeamMoment |-> ToFixed2(gl.groundBeamM),
      groundBeamShear |-> ToFixed2(gl.groundBeamV),
      groundBeamAsRequired |-> Canon(MathRound(gb.asRequired)),
      groundBeamMainBar |-> gb.mainBar, groundBeamTopBar |-> gb.topBar,
      groundBeamShearLinks |-> gb.shearLinks, groundBeamStatus |-> gb.status,
      groundBeamUtilization |-> gb.utilization,
      bearingPressure |-> ToFixed2(ft.actualBearingPressure),
      requiredFootingArea |-> ToFixed2(ft.requiredFootingArea)],
   locals |->
     [colWidth |-> p.colWidth, colLength |-> p.colLength,
      colSpacing |-> p.colSpacing, groundBeamL |-> p.groundBeamL,
      colLoad |-> p.colLoad, soilCapacity |-> p.soilCapacity, fcu |-> p.fcu,
      colCapacity |-> col.colCapacity,
      requiredFootingArea |-> ft.requiredFootingArea, footingSize |-> ft.footingSize,
      actualBearingPressure |-> ft.actualBearingPressure,
      maxColDim |-> ft.maxColDim, cantileverLength |-> ft.cantileverLength,
      k |-> ft.k, finalSteelArea |-> ft.finalSteelArea,
      groundBeamWidth |-> gl.groundBeamWidth, groundBeamDepth |-> gl.groundBeamDepth,
      groundBeamM |-> gl.groundBeamM, groundBeamV |-> gl.groundBeamV,
      d |-> gl.d, gb |-> gb]]

ColumnGroundBeamChecked(p, col, ft, gl) ==
  ColumnSetResult(p, col, ft, gl,
                  SectionCheck(gl.groundBeamM, gl.groundBeamV, gl.groundBeamWidth, gl.d,
                               gl.groundBeamDepth, p.fcu, ColumnLabels))

ColumnParsed(p) ==
  IF ColumnRefused(p.colWidth, p.colLength, p.colLoad, p.soilCapacity)
  THEN [result |-> Null,
        locals |-> [colLoad |-> p.colLoad, soilCapacity |-> p.soilCapacity]]
  ELSE ColumnGroundBeamChecked(
         p,
         ColumnVerified(p.colLoad, ColumnCapacity(JMul(p.colWidth, p.colLength), p.fcu)),
         ColumnFooting(p, RequiredFootingArea(p.colLoad, p.soilCapacity)),
         ColumnGroundBeamLoads(p))

\* The run of calculateDesign on the inputs inp: the record handed to
\* setResult (or Null), and the values of its local constants.
ColumnDesign(inp) == ColumnParsed(ColumnParse(inp))

----------------------------------------------------------------------------
(* The React component.  One of the two variants is mounted with the text  *)
(* of its input fields (the defaults, or what an earlier session saved or  *)
(* the user typed); result is null until the effect on [calculateDesign]   *)
(* has run.                                                                *)

VARIABLES
  app,      \* "beam" or "column": the variant that is mounted
  inputs,   \* useState<DesignInput>: field name -> text of the field
  result,   \* useState<DesignResult | null>
  calc,     \* the local constants of the last run of calculateDesign
  pc,       \* "mount": first render; "render": effects pending; "idle": they have run
  arg,      \* the argument of a kernel function applied on its own
  out,      \* its value
  storage,      \* localStorage: key -> the text of the item, or Null
  aiImage,      \* useState<string | null>: the image shown, by what it shows
  isGenerating, \* useState(false)
  request       \* the generateContent call in flight, or Null

vars == <<app, inputs, result, calc, pc, arg, out, storage, aiImage, isGenerating, request>>


MaxSpan == 2
MaxLoad == 2

\* the texts the input fields take in the model: the beam variant's section
\* geometry against its span, its loading, and its optional fields left
\* blank or filled with text that is no number
BeamGeometry ==
  [span : {"", "abc", "0", "-2", "4.0", "10"} \cup {ToString(i) : i \in 1..MaxSpan},
   width : {"", "150", "100"},
   depth : {"", "450", "150", "43"},
   fcu : {"", "25"},
   tributaryWidth : {"3.0"},
   wallHeight : {"3.0"},
   liveLoad : {"1.5"},
   colHeight : {"3.0"},
   soilCapacity : {"150"},
   groundBeamSpan : {"3.0"},
   groundBeamWidth : {"200"},
   groundBeamDepth : {"350"},
   groundBeamLoad : {"10.0"}]

BeamLoading ==
  [span : {"4.0", "1"},
   width : {"150"},
   depth : {"450"},
   fcu : {"", "25"},
   tributaryWidth : {"3.0", "60"},
   wallHeight : {"3.0"},
   liveLoad : {"1.5"},
   colHeight : {"3.0"},
   soilCapacity : {"150", "0"},
   groundBeamSpan : {"3.0", "1"},
   groundBeamWidth : {"200"},
   groundBeamDepth : {"350"},
   groundBeamLoad : {"10.0", "500"}]

BeamBlank ==
  [span : {"4.0"},
   width : {"", "x"},
   depth : {""},
   fcu : {"", "x", "25"},
   tributaryWidth : {"", "x"},
   wallHeight : {""},
   liveLoad : {""},
   colHeight : {""},
   soilCapacity : {"", "x"},
   groundBeamSpan : {""},
   groundBeamWidth : {""},
   groundBeamDepth : {""},
   groundBeamLoad : {"", "x"}]

\* the beam variant with a dimension left empty or at zero
BeamOmitted ==
  [span : {"4.0", "10"},
   width : {"", "0", "150"},
   depth : {"", "0", "450"},
   fcu : {"25"},
   tributaryWidth : {"3.0"},
   wallHeight : {"3.0"},
   liveLoad : {"1.5"},
   colHeight : {"3.0"},
   soilCapacity : {"150"},
   groundBeamSpan : {"3.0"},
   groundBeamWidth : {"200"},
   groundBeamDepth : {"350"},
   groundBeamLoad : {"10.0"}]

\* the beam variant on a soil capacity with a decimal
BeamSoils ==
  [span : {"4.0", "1"},
   width : {"150"},
   depth : {"450"},
   fcu : {"25"},
   tributaryWidth : {"3.0"},
   wallHeight : {"3.0"},
   liveLoad : {"1.5"},
   colHeight : {"3.0"},
   soilCapacity : {"90.5", "100"},
   groundBeamSpan : {"3.0"},
   groundBeamWidth : {"200"},
   groundBeamDepth : {"350"},
   groundBeamLoad : {"10.0"}]

\* the beam variant with depths of no more than the cover and the bars
BeamShallow ==
  [span : {"4.0", "0.4"},
   width : {"150"},
   depth : {"450", "43", "1"},
   fcu : {"25"},
   tributaryWidth : {"3.0"},
   wallHeight : {"3.0"},
   liveLoad : {"1.5"},
   colHeight : {"3.0"},
   soilCapacity : {"150"},
   groundBeamSpan : {"3.0", "1"},
   groundBeamWidth : {"200"},
   groundBeamDepth : {"350", "43", "1"},
   groundBeamLoad : {"10.0"}]

BeamInputs ==
  BeamGeometry \cup BeamLoading \cup BeamBlank \cup BeamOmitted \cup BeamSoils
    \cup BeamShallow

\* the column variant's load against the soil, and its ground beam
ColumnLoads ==
  [colWidth : {"200"},
   colLength : {"200"},
   colHeight : {"3000"},
   colSpacing : {"4.0"},
   colLoad : {"", "0", "-100", "130", "316.08"} \cup {ToString(500 * i) : i \in 1..MaxLoad},
   soilCapacity : {"", "0", "150", "-50"},
   fcu : {"", "25"},
   groundBeamSpan : {"4.0"}]

ColumnGroundBeam ==
  [colWidth : {"200", ""},
   colLength : {"200"},
   colHeight : {"3000"},
   colSpacing : {"4.0", "3", "1"},
   colLoad : {"130"} \cup {ToString(500 * i) : i \in 1..MaxLoad},
   soilCapacity : {"150"},
   fcu : {"25", "x"},
   groundBeamSpan : {"4.0", "3", "0.5", "8"}]

\* the column variant's column section against the concrete grade
ColumnSections ==
  [colWidth : {"200", "250", "300"},
   colLength : {"200", "400"},
   colHeight : {"3000"},
   colSpacing : {"4.0"},
   colLoad : {"500"},
   soilCapacity : {"150"},
   fcu : {"25", "30", "40"},
   groundBeamSpan : {"4.0"}]

\* the column variant under very light and very heavy column loads, and under
\* a load that a footing of 1.4 m carries exactly on 150 kPa
ColumnLoadRange ==
  [colWidth : {"200", "400"},
   colLength : {"200"},
   colHeight : {"3000"},
   colSpacing : {"4.0"},
   colLoad : {"1", "294", "1500", "2000", "2500"},
   soilCapacity : {"150", "300"},
   fcu : {"25"},
   groundBeamSpan : {"4.0"}]

ColumnInputs == ColumnLoads \cup ColumnGroundBeam \cup ColumnSections \cup ColumnLoadRange

Design(a, inp) == IF a = "beam" THEN BeamDesign(inp) ELSE ColumnDesign(inp)

\* the state of the page around the engine: a browser that has not run the
\* app (no item under either key), and useState(null), useState(false)
ShellInit ==
  /\ storage = [key \in {"beamsafe_pro_inputs_v3", "beamsafe_pro_inputs_v5"} |-> Null]
  /\ aiImage = Null
  /\ isGenerating = FALSE
  /\ request = Null

\* the component is mounted: useState(null) for the result, the effect pending
Init ==
  /\ app \in {"beam", "column"}
  /\ inputs \in (IF app = "beam" THEN BeamInputs ELSE ColumnInputs)
  /\ result = Null
  /\ calc = Null
  /\ pc = "render"
  /\ arg = Null
  /\ out = Null
  /\ ShellInit

\* useEffect(() => { calculateDesign(); }, [calculateDesign])
CalculateDesign ==
  /\ pc = "render"
  /\ \E run \in {Design(app, inputs)} :
       result' = run.result /\ calc' = run.locals
  /\ pc' = "idle"
  /\ UNCHANGED <<app, inputs, arg, out, storage, aiImage, isGenerating, request>>

Next == CalculateDesign

Spec == Init /\ [][Next]_vars

----------------------------------------------------------------------------
(* The bar table applied on its own to a required steel area.  arg counts  *)
(* half square millimetres, so that every limit of the table and its two   *)
(* neighbours are among the arguments.                                      *)

MaxSteel == 1000

HalfUnits(i) == JDiv(Num(i), Num(2))

InitBar ==
  /\ app = "mainBar"
  /\ inputs = Null
  /\ result = Null
  /\ calc = Null
  /\ pc = "call"
  /\ arg \in 0..(2 * MaxSteel)
  /\ out = Null
  /\ ShellInit

SelectMainBar ==
  /\ pc = "call"
  /\ app = "mainBar"
  /\ out' = MainBar(HalfUnits(arg))
  /\ pc' = "done"
  /\ UNCHANGED <<app, inputs, result, calc, arg, storage, aiImage, isGenerating, request>>

NextBar == SelectMainBar

SpecBar == InitBar /\ [][NextBar]_vars

----------------------------------------------------------------------------
(* The footing side applied on its own to an axial load (kN) over a soil   *)
(* capacity (kN/m2).                                                        *)

MaxAxial == 60
MaxSoil == 8

InitFooting ==
  /\ app = "footing"
  /\ inputs = Null
  /\ result = Null
  /\ calc = Null
  /\ pc = "call"
  /\ arg \in [load : {5 * i : i \in 1..MaxAxial}, soil : {25 * j : j \in 1..MaxSoil}]
  /\ out = Null
  /\ ShellInit

SizeFooting ==
  /\ pc = "call"
  /\ app = "footing"
  /\ \E area \in {RequiredFootingArea(Num(arg.load), Num(arg.soil))} :
       out' = [area |-> area, side |-> FootingSize(area)]
  /\ pc' = "done"
  /\ UNCHANGED <<app, inputs, result, calc, arg, storage, aiImage, isGenerating, request>>

NextFooting == SizeFooting

SpecFooting == InitFooting /\ [][NextFooting]_vars

----------------------------------------------------------------------------
(* The three section checks a run makes: the beam and the ground beam of   *)
(* the beam variant, the ground beam of the column variant.                *)

Idle == pc = "idle"
Produced == Idle /\ result # Null

\* the section checks of the last run, each with the fcu it was given and
\* the links text it starts from
Sections ==
  IF ~Produced THEN {}
  ELSE IF app = "beam"
  THEN {[sec |-> calc.beam, fcu |-> calc.fcu, links0 |-> "R6-250",
         status |-> result.status, mainBar |-> result.mainBar,
         shearLinks |-> result.shearLinks, asRequired |-> result.asRequired,
         utilization |-> result.utilization],
        [sec |-> calc.gb, fcu |-> calc.fcu, links0 |-> "R6-250",
         status |-> result.groundBeamStatus, mainBar |-> result.groundBeamMainBar,
         shearLinks |-> result.groundBeamShearLinks,
         asRequired |-> result.groundBeamAsRequired,
         utilization |-> result.groundBeamUtilization]}
  ELSE {[sec |-> calc.gb, fcu |-> calc.fcu, links0 |-> "R8-250",
         status |-> result.groundBeamStatus, mainBar |-> result.groundBeamMainBar,
         shearLinks |-> result.groundBeamShearLinks,
         asRequired |-> result.groundBeamAsRequired,
         utilization |-> result.groundBeamUtilization]}

KLimit == Dec(156, 3)

\* v > 0.8 * sqrt(fcu), stated without the square root: v > 0 and v^2 > 0.64 fcu
ShearOver(v, fcu) == JGt(v, Zero) /\ JGe(fcu, Zero) /\ JGt(JMul(v, v), JMul(Dec(64, 2), fcu))

\* C1: the verdict of a section is SAFE exactly when K <= 0.156 and the shear
\* stress v does not exceed 0.8 sqrt(fcu); a section that passes flexure is
\* UNSAFE whenever v > 0.8 sqrt(fcu), and one that fails flexure is UNSAFE
\* whatever its shear stress.
C1_VerdictIffFlexureAndShear ==
  \A s \in Sections :
    /\ (s.status = "SAFE") <=> (JLe(s.sec.K, KLimit) /\ ~ShearOver(s.sec.v, s.fcu))
    /\ s.status \in {"SAFE", "UNSAFE"}

C1_Witness ==
  /\ \E s \in Sections :
       JLe(s.sec.K, KLimit) /\ ShearOver(s.sec.v, s.fcu) /\ s.status = "UNSAFE"
  /\ app = "beam"
  /\ JLe(calc.beam.K, KLimit) /\ ShearOver(calc.beam.v, calc.fcu)
  /\ JLe(calc.gb.K, KLimit) /\ ShearOver(calc.gb.v, calc.fcu)

\* C2: K = 0.156 exactly is flexurally SAFE and goes on to the steel design;
\* every K > 0.156 is UNSAFE.
C2_FlexureBoundaryInclusive ==
  \A s \in Sections :
    /\ JEq(s.sec.K, KLimit) => (s.sec.flexure = "SAFE" /\ s.mainBar # "None"
                                  /\ JGt(s.asRequired, Zero))
    /\ JGt(s.sec.K, KLimit) => (s.sec.flexure = "UNSAFE" /\ s.status = "UNSAFE")

C2_Witness ==
  \E s \in Sections : JEq(s.sec.K, KLimit) /\ s.status = "SAFE" /\ s.mainBar = "3T16 Bottom"

\* C3: when K > 0.156 the verdict is UNSAFE and no steel is designed: the main
\* bar stays "None", the steel area 0 and the links at their initial text.
C3_OverCapacityKeepsDefaults ==
  \A s \in Sections :
    JGt(s.sec.K, KLimit) =>
      /\ s.status = "UNSAFE"
      /\ s.mainBar = "None"
      /\ s.asRequired = Zero
      /\ s.shearLinks = s.links0

\* width 100, depth 150, span 10, fcu 25
C3_Witness ==
  /\ Produced /\ app = "beam"
  /\ inputs.width = "100" /\ inputs.depth = "150" /\ inputs.span = "10" /\ inputs.fcu = "25"
  /\ JGt(calc.beam.K, KLimit)
  /\ result.status = "UNSAFE" /\ result.mainBar = "None"

BarDone == pc = "done" /\ app = "mainBar"

BarRank(bar) ==
  CASE bar = "2T12 Bottom" -> 1
    [] bar = "2T16 Bottom" -> 2
    [] bar = "3T16 Bottom" -> 3
    [] bar = "3T20 Bottom" -> 4
    [] bar = "4T20 Bottom" -> 5
    [] OTHER -> 0

\* C4: the main bar is the step table on the required steel As: below 226
\* "2T12 Bottom", from 226 below 402 "2T16 Bottom", from 402 below 603
\* "3T16 Bottom", from 603 below 942 "3T20 Bottom", from 942 "4T20 Bottom";
\* As = 226 selects "2T16 Bottom"; a larger As never selects a lighter bar.
\* (arg is As in half mm2.)
C4_BarStepTable ==
  BarDone =>
    /\ (arg < 452) => out = "2T12 Bottom"
    /\ (452 <= arg /\ arg < 804) => out = "2T16 Bottom"
    /\ (804 <= arg /\ arg < 1206) => out = "3T16 Bottom"
    /\ (1206 <= arg /\ arg < 1884) => out = "3T20 Bottom"
    /\ (1884 <= arg) => out = "4T20 Bottom"
    /\ BarRank(out) >= 1
    /\ BarRank(MainBar(HalfUnits(arg + 1))) >= BarRank(out)

C4_Witness == BarDone /\ arg = 452 /\ out = "2T16 Bottom"

BarLimits == {452, 804, 1206, 1884}

\* C5 as the specification states it: a required steel area equal to a limit
\* of the table (226, 402, 603, 942) selects the lighter of the two adjacent
\* bars.
C5_TieSelectsLowerBar ==
  (BarDone /\ arg \in BarLimits) =>
    out = (CASE arg = 452 -> "2T12 Bottom" [] arg = 804 -> "2T16 Bottom"
             [] arg = 1206 -> "3T16 Bottom" [] arg = 1884 -> "3T20 Bottom")

\* C5 amended: a required steel area equal to a limit of the table (226, 402,
\* 603, 942) selects the heavier of the two adjacent bars, the one selected
\* just above the limit and one rank above the one selected just below it.
C5_TieSelectsUpperBar ==
  (BarDone /\ arg \in BarLimits) =>
    /\ out = MainBar(HalfUnits(arg + 1))
    /\ BarRank(out) = BarRank(MainBar(HalfUnits(arg - 1))) + 1
    /\ out = (CASE arg = 452 -> "2T16 Bottom" [] arg = 804 -> "3T16 Bottom"
                [] arg = 1206 -> "3T20 Bottom" [] arg = 1884 -> "4T20 Bottom")

C5_Witness == BarDone /\ arg = 1884 /\ out = "4T20 Bottom"

FootingDone == pc = "done" /\ app = "footing"

Positive(str) == JGt(ParseFloat(str), Zero)
Missing(str) == IsNaN(ParseFloat(str))

\* C7 as the specification states it: with the column load or the soil
\* capacity absent, zero or negative the run ends with no result.  The load
\* is an input of the column variant only; the soil capacity of both.
C7_RefusesBadLoadOrSoil ==
  (/\ Idle
   /\ \/ ~Positive(inputs.soilCapacity)
      \/ app = "column" /\ ~Positive(inputs.colLoad))
  => result = Null

\* C8: in the beam variant a span that is missing, no number, zero or
\* negative ends the run with result null, and every positive span ends it
\* with a result record.
C8_SpanGuard ==
  (Idle /\ app = "beam") =>
    /\ ~Positive(inputs.span) => result = Null
    /\ Positive(inputs.span) => (result # Null /\ result.status \in {"SAFE", "UNSAFE"})

C8_Witness ==
  /\ Idle /\ app = "beam"
  /\ inputs.span = "-2" /\ JLt(calc.L, Zero)
  /\ result = Null

BeamNumberFields ==
  {"width", "depth", "totalUDL", "moment", "reaction", "asRequired", "utilization",
   "colSize", "footingSize", "groundBeamWidth", "groundBeamDepth", "groundBeamMoment",
   "groundBeamAsRequired", "groundBeamUtilization"}

ColumnNumberFields ==
  {"colSize", "colLoad", "colCapacity", "footingSize", "footingThickness",
   "groundBeamWidth", "groundBeamDepth", "groundBeamMoment", "groundBeamShear",
   "groundBeamAsRequired", "groundBeamUtilization", "bearingPressure",
   "requiredFootingArea"}

NumberFields == IF app = "beam" THEN BeamNumberFields ELSE ColumnNumberFields

\* the optional fields: every field but the span of the beam variant
OptionalFields == IF app = "beam" THEN DOMAIN inputs \ {"span"} ELSE DOMAIN inputs

\* C9 as the specification states it: with every optional field either
\* missing, no number, or a positive number, a result that is produced has no
\* numeric field that is NaN and no verdict taken from a NaN moment factor or
\* a NaN concrete grade.
C9_MissingFieldsDefaulted ==
  (/\ Produced
   /\ \A f \in OptionalFields : Missing(inputs[f]) \/ Positive(inputs[f]))
  => /\ \A f \in NumberFields : ~IsNaN(result[f])
     /\ \A s \in Sections : ~IsNaN(s.sec.K) /\ ~IsNaN(s.fcu)

\* C10: with every input a positive number, the moment factor K of each
\* section check is not negative and the utilization is a number from 0 to
\* 100.
C10_KAndUtilizationRange ==
  (Produced /\ \A f \in DOMAIN inputs : Positive(inputs[f])) =>
    \A s \in Sections :
      /\ JGe(s.sec.K, Zero)
      /\ IsNum(s.utilization)
      /\ JGe(s.utilization, Zero) /\ JLe(s.utilization, Num(100))
      /\ JEq(MathFloor(s.utilization), s.utilization)

\* a 100 x 150 beam over 10 m: K is far above 0.156, the utilization is 100
C10_Witness ==
  /\ Produced /\ app = "beam"
  /\ \A f \in DOMAIN inputs : Positive(inputs[f])
  /\ inputs.width = "100" /\ inputs.span = "10"
  /\ JGt(calc.beam.K, Num(1))
  /\ result.utilization = Num(100)
  /\ JLt(result.groundBeamUtilization, Num(100))

\* C11 as the specification states it: span 4.0 m with width and depth left
\* out (auto geometry 150 x 300), tributary width 3.0 m, wall height 3.0 m,
\* live load 1.5 kPa, fcu 25: the beam is SAFE with a main bar other than
\* "None".
C11_AutoGeometryScenarioSafe ==
  (/\ Produced /\ app = "beam"
   /\ inputs.span = "4.0" /\ inputs.width = "" /\ inputs.depth = ""
   /\ inputs.tributaryWidth = "3.0" /\ inputs.wallHeight = "3.0"
   /\ inputs.liveLoad = "1.5" /\ inputs.fcu = "25")
  => /\ result.depth = Num(300) /\ result.width = Num(150)
     /\ result.status = "SAFE"
     /\ result.mainBar # "None"

\* the footing stage run on an axial load of 500 kN over 150 kPa
Footing500On150 ==
  /\ Produced /\ app = "column"
  /\ JEq(calc.colLoad, Num(500)) /\ JEq(calc.soilCapacity, Num(150))

\* C12 as the specification states it: 500 kN on 150 kPa gives the required
\* area 3.333 m2, the side 3.4 m, the bearing pressure 500 / 3.4^2 and the
\* footing status SAFE.
C12_FootingScenarioSide34 ==
  Footing500On150 =>
    /\ JEq(calc.requiredFootingArea, JDiv(Num(10), Num(3)))
    /\ JEq(calc.footingSize, Dec(34, 1))
    /\ JEq(calc.actualBearingPressure, JDiv(Num(500), JMul(Dec(34, 1), Dec(34, 1))))
    /\ result.footingStatus = "SAFE"

\* x and y less than 10^-9 apart
Near(x, y) == JLt(JSub(x, y), Dec(1, 9)) /\ JLt(JSub(y, x), Dec(1, 9))

\* C12 amended: 500 kN on 150 kPa gives the required area 3.333 m2 (shown as
\* 3.33), the side ceil(sqrt(3.333) * 10) / 10 = 1.9 m, the bearing pressure
\* 500 / 1.9^2 (shown as 138.5 kPa) and the footing status SAFE.
C12_FootingScenarioSide19 ==
  Footing500On150 =>
    /\ JEq(calc.requiredFootingArea, JDiv(Num(10), Num(3)))
    /\ JEq(result.requiredFootingArea, Dec(333, 2))
    /\ JEq(calc.footingSize, Dec(19, 1))
    /\ JEq(result.footingSize, Dec(19, 1))
    /\ Near(calc.actualBearingPressure, JDiv(Num(500), JMul(Dec(19, 1), Dec(19, 1))))
    /\ JEq(result.bearingPressure, Dec(1385, 1))
    /\ result.footingStatus = "SAFE"

C12_Witness ==
  /\ Footing500On150
  /\ inputs.colLoad = "500" /\ inputs.soilCapacity = "150"
  /\ JEq(result.footingSize, Dec(19, 1))
  /\ result.footingStatus = "SAFE"

\* the axial load the column check of the last run was given
ColumnAxialLoad == IF app = "beam" THEN calc.axialLoad ELSE calc.colLoad

\* C13: in both column modes the column is SAFE exactly when the axial load
\* is strictly below the capacity; a load equal to the capacity is UNSAFE.
C13_ColumnStrictlyBelowCapacity ==
  Produced =>
    /\ (result.colStatus = "SAFE") <=> JLt(ColumnAxialLoad, calc.colCapacity)
    /\ result.colStatus \in {"SAFE", "UNSAFE"}
    /\ JEq(ColumnAxialLoad, calc.colCapacity) => result.colStatus = "UNSAFE"

\* a 200 x 200 column of fcu 25 carries 316.08 kN: loaded with 316.08 kN
C13_Witness ==
  /\ Produced /\ app = "column"
  /\ inputs.colLoad = "316.08"
  /\ JEq(calc.colLoad, calc.colCapacity)
  /\ result.colStatus = "UNSAFE"

\* (0.4 fcd Ac + 0.87 fyd Asc) / 1000 with fcd = 0.67 fcu / 1.5 and
\* fyd = 460 / 1.15, written out from the specification's formula
DesignStrength(Ac, Asc, fcu) ==
  JDiv(JAdd(JMul(JMul(Dec(4, 1), JDiv(JMul(Dec(67, 2), fcu), Dec(15, 1))), Ac),
            JMul(JMul(Dec(87, 2), JDiv(Num(460), Dec(115, 2))), Asc)),
       Num(1000))

ColumnSectionArea == JMul(calc.colWidth, calc.colLength)

SectionData ==
  IF ~Produced THEN {}
  ELSE IF app = "beam"
  THEN {[sec |-> calc.beam, M |-> calc.M, V |-> calc.reaction,
         b |-> calc.b, h |-> calc.h, d |-> calc.d,
         links |-> result.shearLinks, asShown |-> result.asRequired,
         links0 |-> "R6-250", dense |-> "R8 @ 175mm", light |-> "R6 @ 200mm"],
        [sec |-> calc.gb, M |-> calc.groundBeamM, V |-> calc.groundBeamReaction,
         b |-> result.groundBeamWidth, h |-> result.groundBeamDepth,
         d |-> calc.groundBeamD,
         links |-> result.groundBeamShearLinks, asShown |-> result.groundBeamAsRequired,
         links0 |-> "R6-250", dense |-> "R8 @ 175mm", light |-> "R6 @ 200mm"]}
  ELSE {[sec |-> calc.gb, M |-> calc.groundBeamM, V |-> calc.groundBeamV,
         b |-> calc.groundBeamWidth, h |-> calc.groundBeamDepth, d |-> calc.d,
         links |-> result.groundBeamShearLinks, asShown |-> result.groundBeamAsRequired,
         links0 |-> "R8-250", dense |-> "R10 @ 175mm", light |-> "R8 @ 200mm"]}

\* 0.0013 b h
MinimumSteel(s) == JMul(JMul(Dec(13, 4), s.b), s.h)

\* M 1e6 / (0.95 * 460 * z), z = min(d (0.5 + sqrt(0.25 - K / 0.9)), 0.95 d)
FlexuralSteel(s) ==
  JDiv(JMul(s.M, Num(1000000)),
       JMul(JMul(Dec(95, 2), Num(460)),
            MathMin(JMul(s.d, JAdd(Dec(5, 1),
                                   MathSqrt(JSub(Dec(25, 2), JDiv(s.sec.K, Dec(9, 1)))))),
                    JMul(Dec(95, 2), s.d))))

\* C15: a section that passes flexure has the required steel
\* max(M 1e6 / (0.95 fy z), 0.0013 b h), which is never below the minimum
\* steel 0.0013 b h; the area shown is that value rounded.
C15_SteelAtLeastMinimum ==
  \A s \in SectionData :
    JLe(s.sec.K, KLimit) =>
      /\ JEq(s.sec.asRequired, MathMax(FlexuralSteel(s), MinimumSteel(s)))
      /\ JGe(s.sec.asRequired, MinimumSteel(s))
      /\ JGe(s.sec.asRequired, FlexuralSteel(s))
      /\ JEq(s.asShown, MathRound(s.sec.asRequired))

\* a 150 x 450 beam over 1 m: the minimum steel 87.75 mm2 governs, while the
\* flexural steel governs in its ground beam
C15_Witness ==
  /\ Produced /\ app = "beam" /\ inputs.span = "1"
  /\ JLe(calc.beam.K, KLimit)
  /\ JEq(calc.beam.asRequired, Dec(8775, 2))
  /\ \E s \in SectionData : s.sec = calc.beam /\ JLt(FlexuralSteel(s), MinimumSteel(s))
  /\ JLe(calc.gb.K, KLimit)
  /\ JGt(calc.gb.asRequired, JMul(JMul(Dec(13, 4), Num(200)), Num(350)))

\* v = V 1000 / (b d) > 0.4
ShearAboveLinkLimit(s) ==
  JGt(JDiv(JMul(s.V, Num(1000)), JMul(s.b, s.d)), Dec(4, 1))

\* C16 as the specification states it: in every stage and variant the links
\* follow the shear stress alone: the dense 175 mm text whenever v > 0.4,
\* a light 200 or 250 mm text otherwise.
C16_LinksByShearAlone ==
  \A s \in SectionData :
    /\ ShearAboveLinkLimit(s) => s.links = s.dense
    /\ ~ShearAboveLinkLimit(s) => s.links \in {s.light, s.links0}

\* C16 amended: a section that passes flexure (K <= 0.156) has the dense
\* 175 mm links when v > 0.4 and the light 200 mm links otherwise; a section
\* that fails flexure keeps the initial 250 mm links whatever its v.
C16_LinksByShearWhenFlexureSafe ==
  \A s \in SectionData :
    /\ (JLe(s.sec.K, KLimit) /\ ShearAboveLinkLimit(s)) => s.links = s.dense
    /\ (JLe(s.sec.K, KLimit) /\ ~ShearAboveLinkLimit(s)) => s.links = s.light
    /\ ~JLe(s.sec.K, KLimit) => s.links = s.links0

\* the default beam (v = 1.22) over the default ground beam (v = 0.29)
C16_Witness ==
  /\ Produced /\ app = "beam" /\ inputs = BeamDefaults
  /\ \A s \in SectionData : JLe(s.sec.K, KLimit)
  /\ result.shearLinks = "R8 @ 175mm" /\ JGt(calc.beam.v, Num(1))
  /\ result.groundBeamShearLinks = "R6 @ 200mm" /\ JLt(calc.gb.v, Dec(3, 1))

\* the step table of the specification on the final steel area per metre
MeshTable(A) ==
  IF JLe(A, Num(452)) THEN "T12 @ 250mm"
  ELSE IF JLe(A, Num(565)) THEN "T12 @ 200mm"
  ELSE IF JLe(A, Num(804)) THEN "T16 @ 250mm"
  ELSE IF JLe(A, Num(1005)) THEN "T16 @ 200mm"
  ELSE "T20 @ 250mm"

\* a run that reached the footing stage with a steel area
FootingDesigned ==
  /\ Produced
  /\ IF app = "beam" THEN IsNum(calc.finalFootingAs) ELSE IsNum(calc.finalSteelArea)

\* C17 as the specification states it: in every variant the footing mesh is
\* the step table T12@250 / T12@200 / T16@250 / T16@200 / T20@250 on the final
\* steel area, with the steps at 452, 565, 804 and 1005 (the beam variant
\* appends the layer mark B1/B2 to the text).
C17_FootingMeshTable ==
  FootingDesigned =>
    IF app = "beam"
      THEN result.footingSteel = MeshTable(calc.finalFootingAs) \o " B1/B2"
      ELSE result.footingSteel = MeshTable(calc.finalSteelArea)

\* the soil capacities of the footing runs
SoilGrid == {25 * j : j \in 1..MaxSoil}

\* the side on the same load and another soil capacity
SideOn(load, soil) == FootingSize(RequiredFootingArea(Num(load), Num(soil)))

\* C18: with the load fixed and positive, a larger soil capacity never gives
\* a longer footing side: side(load, s2) <= side(load, s1) for s1 <= s2.
C18_SideFallsWithSoil ==
  FootingDone =>
    /\ out.side = SideOn(arg.load, arg.soil)
    /\ \A s2 \in SoilGrid : s2 >= arg.soil => JLe(SideOn(arg.load, s2), out.side)

\* 300 kN: 2 m on 75 kPa, and the strictly shorter 1.3 m on 200 kPa
C18_Witness ==
  /\ FootingDone /\ arg = [load |-> 300, soil |-> 75]
  /\ JEq(out.side, Num(2)) /\ JEq(SideOn(300, 200), Dec(13, 1))

\* a dimension left empty (or not a number) or given as zero
Omitted(x) == IsNaN(x) \/ JEq(x, Zero)

\* m is the larger of floor and x rounded up to a multiple of 25
RoundedUpFrom(m, x, floor) ==
  /\ IsNum(m) /\ JEq(JMul(MathFloor(JDiv(m, Num(25))), Num(25)), m)
  /\ JGe(m, Num(floor)) /\ JGe(m, x)
  /\ (JEq(m, Num(floor)) \/ JLt(JSub(m, Num(25)), x))

\* C19: an omitted (empty or zero) depth becomes max(300, L 1000/14 rounded up
\* to a multiple of 25), an omitted width max(150, depth/2.5 rounded up to a
\* multiple of 25) on the depth in effect, and a supplied dimension is kept.
C19_AutoGeometry ==
  (Produced /\ app = "beam") =>
    LET b0 == ParseFloat(inputs.width)
        h0 == ParseFloat(inputs.depth)
        L  == ParseFloat(inputs.span)
    IN  /\ result.depth = calc.h /\ result.width = calc.b
        /\ IF Omitted(h0)
             THEN RoundedUpFrom(calc.h, JDiv(JMul(L, Num(1000)), Num(14)), 300)
             ELSE JEq(calc.h, h0)
        /\ IF Omitted(b0)
             THEN RoundedUpFrom(calc.b, JDiv(calc.h, Dec(25, 1)), 150)
             ELSE JEq(calc.b, b0)

\* 10 m with nothing given: 725 deep and so 300 wide; or 450 deep given and
\* the width at zero: 450 kept, 200 wide
C19_Witness ==
  /\ Produced /\ app = "beam"
  /\ \/ /\ inputs.span = "10" /\ inputs.width = "" /\ inputs.depth = ""
        /\ JEq(result.depth, Num(725)) /\ JEq(result.width, Num(300))
     \/ /\ inputs.width = "0" /\ inputs.depth = "450"
        /\ JEq(result.depth, Num(450)) /\ JEq(result.width, Num(200))

\* x held between lo and hi
Clamp(x, lo, hi) == MathMax(Num(lo), MathMin(Num(hi), x))

\* the column variant's ground beam: width, load, and the depth in range
GroundBeamWidthAndLoad ==
  LET load == JDiv(calc.colLoad, calc.colSpacing)
  IN  /\ JEq(result.groundBeamWidth,
             MathMax(Num(200), JMul(Dec(8, 1), MathMax(calc.colWidth, calc.colLength))))
      /\ JEq(calc.groundBeamV, JDiv(JMul(load, calc.groundBeamL), Num(2)))
      /\ JEq(calc.groundBeamM,
             JDiv(JMul(load, JMul(calc.groundBeamL, calc.groundBeamL)), Num(8)))
      /\ JGe(result.groundBeamDepth, Num(300)) /\ JLe(result.groundBeamDepth, Num(600))
      /\ JGe(result.groundBeamWidth, Num(200))

\* C20 as the specification states it: in the column variant the ground beam
\* depth is span 1000/12 held between 300 and 600, the width
\* max(200, 0.8 max(colWidth, colLength)), the load colLoad / colSpacing.
C20_GroundBeamDepthClamped ==
  (Produced /\ app = "column") =>
    /\ JEq(result.groundBeamDepth,
           Clamp(JDiv(JMul(calc.groundBeamL, Num(1000)), Num(12)), 300, 600))
    /\ GroundBeamWidthAndLoad

\* C20 amended: the depth is span 1000/12 rounded up to a whole millimetre
\* and then held between 300 and 600; the width is
\* max(200, 0.8 max(colWidth, colLength)) and the load colLoad / colSpacing,
\* so the depth lies in [300, 600] and the width is at least 200.
C20_GroundBeamDepthCeiled ==
  (Produced /\ app = "column") =>
    /\ JEq(result.groundBeamDepth,
           Clamp(MathCeil(JDiv(JMul(calc.groundBeamL, Num(1000)), Num(12))), 300, 600))
    /\ GroundBeamWidthAndLoad

\* a 4 m span: 334 deep; or an 8 m span: 667 held at 600
C20_Witness ==
  /\ Produced /\ app = "column"
  /\ \/ inputs.groundBeamSpan = "4.0" /\ JEq(result.groundBeamDepth, Num(334))
     \/ inputs.groundBeamSpan = "8" /\ JEq(result.groundBeamDepth, Num(600))

\* the fields of a result that belong to the footing stage
FootingFields ==
  {"footingSize", "footingThickness", "footingSteel", "footingStatus",
   "bearingPressure", "requiredFootingArea"}

\* a result without its footing fields
OtherStages(res) == [f \in (DOMAIN res) \ FootingFields |-> res[f]]

\* the result of the same inputs on another soil capacity
ResultOnSoil(soil) == Design(app, [inputs EXCEPT !.soilCapacity = soil]).result

\* other soil capacities a user may enter
OtherSoils == {"75", "0"}

\* C21: with every other input fixed, another soil capacity changes footing
\* outputs only: the column verdict and capacity and the beam and ground beam
\* verdicts, steel and bar callouts are the same.
C21_SoilChangesFootingOnly ==
  Produced =>
    \A soil \in OtherSoils :
      /\ ResultOnSoil(soil) # Null
      /\ OtherStages(ResultOnSoil(soil)) = OtherStages(result)

\* on half the soil capacity the footing side differs, the rest does not
C21_Witness ==
  /\ Produced /\ inputs.soilCapacity = "150"
  /\ ResultOnSoil("75").footingSize # result.footingSize
  /\ ResultOnSoil("75").colStatus = result.colStatus
  /\ ResultOnSoil("75").groundBeamStatus = result.groundBeamStatus

\* the column stage and the footing stage run on a reaction handed to them
StagedColumn(reaction, p) ==
  BeamColumn(BeamAxialLoad(reaction, p.colH),
             BeamColumnCapacity(p.fcu, JMul(Num(200), Num(200))))

StagedFootingSize(axialLoad, p) ==
  FootingSize(RequiredFootingArea(axialLoad, p.soil))

\* the same number, or both not a number
SameNumber(x, y) == JEq(x, y) \/ (IsNaN(x) /\ IsNaN(y))

\* C22: the column stage on the reaction the beam stage reports, and the
\* footing stage on that column's axial load, give the column verdict and the
\* footing side of the single combined run on the same inputs.
C22_StagedRunAgrees ==
  (Produced /\ app = "beam") =>
    LET p   == BeamParse(inputs)
        col == StagedColumn(result.reaction, p)
    IN  /\ col.colStatus = result.colStatus
        /\ SameNumber(StagedFootingSize(col.axialLoad, p), result.footingSize)

\* the footing meshes, from the lightest to the heaviest
MeshRank(mesh) ==
  CASE mesh = "T12 @ 250mm" -> 1
    [] mesh = "T12 @ 200mm" -> 2
    [] mesh = "T16 @ 250mm" -> 3
    [] mesh = "T16 @ 200mm" -> 4
    [] mesh = "T20 @ 250mm" -> 5

\* the mesh of the same inputs under another column load
MeshUnderLoad(load) == Design(app, [inputs EXCEPT !.colLoad = load]).result.footingSteel

\* heavier column loads a user may enter
HeavierLoads == {"1500", "2000"}

\* C23: in the column variant, with the soil, the column and fcu fixed, a
\* larger column load never selects a lighter footing mesh, and a load that
\* takes the strip factor k above 0.225 does not select the lightest mesh.
C23_MeshGrowsWithLoad ==
  (Produced /\ app = "column" /\ JGt(calc.colLoad, Zero)) =>
    /\ \A load \in HeavierLoads :
         JGe(ParseFloat(load), calc.colLoad) =>
           MeshRank(MeshUnderLoad(load)) >= MeshRank(result.footingSteel)
    /\ JGt(calc.k, Dec(225, 3)) => result.footingSteel # "T12 @ 250mm"

\* C24: in the column variant the footing side in millimetres is at least
\* the largest column dimension in every produced result, so that the
\* cantilever length (side 1000 - maxColDim) / 2 is never negative.
C24_FootingCoversColumn ==
  (Produced /\ app = "column") =>
    /\ JGe(JMul(calc.footingSize, Num(1000)), MathMax(calc.colWidth, calc.colLength))
    /\ JGe(calc.cantileverLength, Zero)

\* C25: a beam or ground beam whose entered depth h is 43 mm or less, so that
\* its effective depth d = h - 25 - 8 - 10 is not positive, is never SAFE and
\* has no bar callout other than "None".
C25_NoSafeWithoutEffectiveDepth ==
  app = "beam" =>
    \A s \in SectionData :
      (JLe(s.h, Num(43)) /\ JLe(s.d, Zero)) =>
        s.sec.status # "SAFE" /\ s.sec.mainBar = "None"

\* C26: in the column variant a positive load on a positive soil capacity
\* never gives the footing verdict UNSAFE: the side is rounded up, so the
\* bearing pressure load / side^2 does not exceed the soil capacity.
C26_FootingNeverUnsafe ==
  (Produced /\ app = "column" /\ JGt(calc.colLoad, Zero) /\ JGt(calc.soilCapacity, Zero)) =>
    /\ JLe(calc.actualBearingPressure, calc.soilCapacity)
    /\ result.footingStatus = "SAFE"

\* C27: the utilization agrees with the flexural verdict of the beam and of
\* the ground beam: K > 0.156 gives a utilization of exactly 100, and a
\* utilization below 100 comes with K <= 0.156.
C27_UtilizationAgreesWithFlexure ==
  \A s \in Sections :
    /\ JGt(s.sec.K, KLimit) => JEq(s.utilization, Num(100))
    /\ JLt(s.utilization, Num(100)) => JLe(s.sec.K, KLimit)

\* a beam over its flexural capacity at 100 next to a ground beam below 100
C27_Witness ==
  /\ Produced /\ app = "beam"
  /\ JGt(calc.beam.K, KLimit) /\ JEq(result.utilization, Num(100))
  /\ JLe(calc.gb.K, KLimit) /\ JLt(result.groundBeamUtilization, Num(100))

----------------------------------------------------------------------------
(* The page: the inputs kept in localStorage, the edits of the form, the   *)
(* restart of the page, and the AI concept image.  pc is "mount" after the *)
(* useState initialisers, "render" after an edit, "idle" once the effects  *)
(* have run.                                                               *)

\* the fields of the form, in the order of the initial object
Fields(a) ==
  IF a = "beam"
  THEN <<"span", "width", "depth", "fcu", "tributaryWidth", "wallHeight",
         "liveLoad", "colHeight", "soilCapacity", "groundBeamSpan",
         "groundBeamWidth", "groundBeamDepth", "groundBeamLoad">>
  ELSE <<"colWidth", "colLength", "colHeight", "colSpacing", "colLoad",
         "soilCapacity", "fcu", "groundBeamSpan">>

\* JSON.stringify(inputs): the members name: text, in the order of the keys
JSONStringify(inp, fields) ==
  [text |-> [i \in 1..Len(fields) |-> <<fields[i], inp[fields[i]]>>]]

\* JSON.parse(saved): the object with the members of the text
JSONParse(item) ==
  [name \in {item.text[i][1] : i \in DOMAIN item.text} |->
     item.text[CHOOSE i \in DOMAIN item.text : item.text[i][1] = name][2]]

\* localStorage.getItem('...') of the useState initialiser
ReadKey(a) == IF a = "beam" THEN "beamsafe_pro_inputs_v3" ELSE "beamsafe_pro_inputs_v5"

\* localStorage.setItem('...') of the effect on [inputs]
WriteKey(a) == "beamsafe_pro_inputs_v3"

\* saved ? JSON.parse(saved) : { ...defaults }
InitialInputs(a, store) ==
  IF store[ReadKey(a)] # Null THEN JSONParse(store[ReadKey(a)])
  ELSE IF a = "beam" THEN BeamDefaults
  ELSE ColumnDefaults

InitApp ==
  /\ app \in {"beam", "column"}
  /\ ShellInit
  /\ inputs = InitialInputs(app, storage)
  /\ result = Null
  /\ calc = Null
  /\ pc = "mount"
  /\ arg = Null
  /\ out = Null

\* the two effects of a commit: localStorage.setItem on [inputs], then
\* calculateDesign on [calculateDesign]
RunEffects ==
  /\ pc \in {"mount", "render"}
  /\ storage' = [storage EXCEPT ![WriteKey(app)] = JSONStringify(inputs, Fields(app))]
  /\ \E run \in {Design(app, inputs)} :
       result' = run.result /\ calc' = run.locals
  /\ pc' = "idle"
  /\ UNCHANGED <<app, inputs, arg, out, aiImage, isGenerating, request>>

\* the texts typed into the fields: e.target.name, e.target.value
Edits(a) ==
  IF a = "beam" THEN {"span"} \X {"4.0", "10", "0"}
  ELSE ({"colLoad"} \X {"500", "1000"}) \cup ({"soilCapacity"} \X {"150", "75"})

\* handleInputChange: setInputs(prev => ({ ...prev, [name]: value }))
HandleInputChange ==
  /\ pc = "idle"
  /\ \E e \in Edits(app) : inputs' = [inputs EXCEPT ![e[1]] = e[2]]
  /\ pc' = "render"
  /\ UNCHANGED <<app, result, calc, arg, out, storage, aiImage, isGenerating, request>>

\* the page is loaded again: every useState starts over, localStorage stays
Restart ==
  /\ pc = "idle"
  /\ inputs' = InitialInputs(app, storage)
  /\ result' = Null
  /\ calc' = Null
  /\ aiImage' = Null
  /\ isGenerating' = FALSE
  /\ request' = Null
  /\ pc' = "mount"
  /\ UNCHANGED <<app, storage, arg, out>>

\* the texts of the prompt that come from the inputs and the result
Prompt(a, inp, res) ==
  (IF a = "beam"
   THEN <<res.width, res.depth, res.topBar, res.mainBar, res.shearLinks>>
   ELSE <<inp.colWidth, inp.colLength, res.colLoad>>)
  \o <<res.footingSize, res.footingSteel, res.groundBeamWidth,
        res.groundBeamDepth, res.groundBeamMainBar, res.groundBeamTopBar,
        res.groundBeamShearLinks>>

\* a click on AI Concept with no test of the result
GenerateWithoutResult ==
  /\ pc = "idle"
  /\ ~isGenerating
  /\ isGenerating' = TRUE
  /\ request' = [prompt |-> IF result = Null THEN <<>> ELSE Prompt(app, inputs, result),
                 from |-> result]
  /\ UNCHANGED <<app, inputs, result, calc, pc, arg, out, storage, aiImage>>

\* generateStructuralImage up to its await (the button is disabled while
\* isGenerating): if (!result) return; setIsGenerating(true); generateContent
GenerateStructuralImage ==
  /\ pc = "idle"
  /\ ~isGenerating
  /\ IF result = Null
     THEN UNCHANGED <<isGenerating, request>>
     ELSE /\ isGenerating' = TRUE
          /\ request' = [prompt |-> Prompt(app, inputs, result), from |-> result]
  /\ UNCHANGED <<app, inputs, result, calc, pc, arg, out, storage, aiImage>>

\* generateStructuralImage after its await: a part with inlineData is shown
\* (setAiImage), a response without one or a throw leaves the image; finally
\* setIsGenerating(false)
Respond ==
  /\ request # Null
  /\ \E outcome \in {"image", "empty", "throw"} :
       aiImage' = IF outcome = "image" THEN request ELSE aiImage
  /\ isGenerating' = FALSE
  /\ request' = Null
  /\ UNCHANGED <<app, inputs, result, calc, pc, arg, out, storage>>

NextApp ==
  \/ RunEffects
  \/ HandleInputChange
  \/ Restart
  \/ GenerateStructuralImage
  \/ Respond

SpecApp == InitApp /\ [][NextApp]_vars

\* the request settles: the promise of generateContent resolves or rejects
SpecAppLive == SpecApp /\ WF_vars(Respond)

----------------------------------------------------------------------------
(* C28..C30: the page around the calculation                               *)

\* C28: when the page starts again after inputs were saved, the initial
\* inputs are the inputs that were saved last: the item written by the
\* effect on [inputs], parsed back.
C28_InputsRoundTrip ==
  (pc = "mount" /\ storage[WriteKey(app)] # Null)
    => inputs = JSONParse(storage[WriteKey(app)])

\* C29: an AI concept image that is displayed (the result panel is rendered
\* and aiImage is set) was generated from the result displayed with it.
C29_ImageOfShownResult ==
  (pc = "idle" /\ result # Null /\ aiImage # Null) => aiImage.from = result

\* a step that starts a generation: isGenerating goes from false to true
GenerationStarts == ~isGenerating /\ isGenerating'

\* C30: a generation is started only while there is a result, and once
\* isGenerating is true it is false again later, whatever the request does
\* (an image, a response without an image, or a throw).
C30_GenerationGuardedAndSettles ==
  /\ [][GenerationStarts => result # Null]_vars
  /\ isGenerating ~> ~isGenerating

\* a generation that was started on a result has come back with its image
C30_Witness ==
  /\ ~isGenerating
  /\ request = Null
  /\ result # Null
  /\ aiImage # Null
  /\ aiImage.from = result

====
